---- MODULE Spec2Model ----
(***************************************************************************)
(* StockFlow inventory API (src/routes.js, src/models.js): the relational  *)
(* store behind the Sequelize models, the six request handlers and the     *)
(* low-stock alert computation.                                            *)
(*                                                                         *)
(* Time is kept in whole hours (the code works in milliseconds); a request *)
(* handler runs as one step, as no handler yields between its store calls  *)
(* to another request that the claims depend on.                           *)
(***************************************************************************)
EXTENDS Integers, Sequences, FiniteSets, TLC

VARIABLES db, now, last

vars == <<db, now, last>>

(* ------------------------------ bounds -------------------------------- *)
MaxCompanies == 2
MaxWarehouses == 2
MaxSuppliers == 1
MaxProducts == 2
MaxLog == 3

(* ------------------------- program constants -------------------------- *)
HoursPerDay == 24
WindowDays == 60
DefaultThreshold == 10

\* A JSON field of a request body: a value, null, or undefined (the body does
\* not carry the field).
Val(x) == [k |-> "value", v |-> x]
NULL == [k |-> "null", v |-> 0]
ABSENT == [k |-> "undefined", v |-> 0]

Abs(x) == IF x < 0 THEN -x ELSE x
Max(a, b) == IF a >= b THEN a ELSE b

RECURSIVE Pow2(_)
Pow2(n) == IF n <= 0 THEN 1 ELSE 2 * Pow2(n - 1)

(* ------------------------------ the store ----------------------------- *)
\* Rows of a table with an auto-increment id are a sequence: id = position.
EmptyDb ==
    [ Company |-> <<>>, Warehouse |-> <<>>, Supplier |-> <<>>,
      Product |-> <<>>, Inventory |-> <<>>, InventoryMovementLog |-> <<>> ]

Ids(table) == 1 .. Len(table)

\* Model.findByPk(id) finds a row.
findByPk(table, id) == id \in Ids(table)

\* The outcome of one store call: ok with the new tables, or the error's name.
Ok(d) == [ok |-> TRUE, error |-> "none", db |-> d]
Err(name, d) == [ok |-> FALSE, error |-> name, db |-> d]

\* Company.create({ name })
CompanyCreate(d, name) ==
    IF name.k # "value" THEN Err("SequelizeValidationError", d)
    ELSE Ok([d EXCEPT !.Company = Append(@, [name |-> name.v])])

\* Warehouse.create({ name, location, companyId }); companyId is a foreign key.
WarehouseCreate(d, name, companyId) ==
    IF name.k # "value" THEN Err("SequelizeValidationError", d)
    ELSE IF companyId \notin Ids(d.Company)
         THEN Err("SequelizeForeignKeyConstraintError", d)
    ELSE Ok([d EXCEPT !.Warehouse = Append(@, [companyId |-> companyId])])

\* Supplier.create({ name, contact_email, companyId })
SupplierCreate(d, name, companyId) ==
    IF name.k # "value" THEN Err("SequelizeValidationError", d)
    ELSE IF companyId \notin Ids(d.Company)
         THEN Err("SequelizeForeignKeyConstraintError", d)
    ELSE Ok([d EXCEPT !.Supplier = Append(@, [companyId |-> companyId])])

\* The unique index company_sku_unique_constraint on (companyId, sku) refuses
\* the row.
SkuTakenInAnyCompany(d, companyId, sku) ==
    \E i \in Ids(d.Product) : d.Product[i].sku = sku
SkuTaken(d, companyId, sku) ==
    \E i \in Ids(d.Product) :
        d.Product[i].companyId = companyId /\ d.Product[i].sku = sku

\* Product.create(...): NOT NULL validation, then the INSERT under the unique
\* index company_sku_unique_constraint and the primarySupplierId foreign key.
\* An undefined low_stock_threshold takes the column's default.
ProductCreate(d, companyId, body) ==
    IF \/ body.name.k # "value"
       \/ body.sku.k # "value"
       \/ body.low_stock_threshold.k = "null"
    THEN Err("SequelizeValidationError", d)
    ELSE IF SkuTaken(d, companyId, body.sku.v)
         THEN Err("SequelizeUniqueConstraintError", d)
    ELSE IF \/ companyId \notin Ids(d.Company)
            \/ /\ body.primarySupplierId.k = "value"
               /\ body.primarySupplierId.v \notin Ids(d.Supplier)
         THEN Err("SequelizeForeignKeyConstraintError", d)
    ELSE Ok([d EXCEPT !.Product = Append(@,
             [ companyId |-> companyId,
               sku |-> body.sku.v,
               low_stock_threshold |->
                   IF body.low_stock_threshold.k = "value"
                   THEN body.low_stock_threshold.v ELSE DefaultThreshold,
               primarySupplierId |->
                   IF body.primarySupplierId.k = "value"
                   THEN body.primarySupplierId ELSE NULL ])])

\* Inventory.create({ productId, warehouseId, quantity }): quantity is NOT NULL,
\* (productId, warehouseId) is the primary key, both are foreign keys.
InventoryCreate(d, productId, warehouseId, quantity) ==
    IF quantity.k # "value" THEN Err("SequelizeValidationError", d)
    ELSE IF \E i \in Ids(d.Inventory) :
               /\ d.Inventory[i].productId = productId
               /\ d.Inventory[i].warehouseId = warehouseId
         THEN Err("SequelizeUniqueConstraintError", d)
    ELSE IF productId \notin Ids(d.Product) \/ warehouseId \notin Ids(d.Warehouse)
         THEN Err("SequelizeForeignKeyConstraintError", d)
    ELSE Ok([d EXCEPT !.Inventory = Append(@,
             [ productId |-> productId, warehouseId |-> warehouseId,
               quantity |-> quantity.v ])])

\* InventoryMovementLog.create({ productId, warehouseId, quantity_change,
\* reason }): createdAt is the insert's time.
InventoryMovementLogCreate(d, productId, warehouseId, quantity_change, reason, clock) ==
    IF quantity_change.k # "value" \/ reason.k # "value"
    THEN Err("SequelizeValidationError", d)
    ELSE IF \/ productId.k # "value" \/ warehouseId.k # "value"
            \/ productId.v \notin Ids(d.Product)
            \/ warehouseId.v \notin Ids(d.Warehouse)
         THEN Err("SequelizeForeignKeyConstraintError", d)
    ELSE Ok([d EXCEPT !.InventoryMovementLog = Append(@,
             [ productId |-> productId.v, warehouseId |-> warehouseId.v,
               quantity_change |-> quantity_change.v,
               reason |-> reason.v, createdAt |-> clock ])])

\* A store call that the fault injection makes throw, or the call itself.
Call(fault, name, result, d) ==
    IF fault = name THEN Err("SequelizeDatabaseError", d) ELSE result

(* ----------------------------- transactions --------------------------- *)
\* t.rollback(): the store keeps what was committed before the transaction.
RollbackKeepsProduct(committed, t) == [committed EXCEPT !.Product = t.Product]
Rollback(committed, t) == committed

\* t.commit(): the transaction's writes become the store's contents.
Commit(committed, t) == t

(* ------------------------------ responses ----------------------------- *)
\* What a handler leaves behind: the HTTP status it sent (0: an exception
\* escaped the handler, whose promise was rejected before it sent a response),
\* the store calls it issued, in order, for product creation the store call
\* that threw, and for an alert computation the company it ran for, its
\* locals and the body.
Resp(op, status) ==
    [ op |-> op, status |-> status, failed |-> "none", companyId |-> 0,
      calls |-> <<>>, lowStockItems |-> <<>>,
      salesData |-> {}, alerts |-> <<>>, total_alerts |-> 0 ]

Reply(op, status, calls) == [Resp(op, status) EXCEPT !.calls = calls]

Done(d, resp) == [db |-> d, last |-> resp]

(* ------------------------------ handlers ------------------------------ *)
\* !x of JavaScript for a string and for a number field.
FalsyString(f) == f.k # "value" \/ f.v = ""
FalsyNumber(f) == f.k # "value" \/ f.v = 0

\* routes.js checkRequiredFields: data.hasOwnProperty(field) for every field.
checkRequiredFields(data, fields) == \A f \in fields : data[f].k # "undefined"

requiredFields == {"name", "sku", "price", "warehouseId", "initial_quantity"}

\* POST /companies
PostCompanies(d, name, fault) ==
    IF FalsyString(name) THEN Done(d, Resp("POST /companies", 400))
    ELSE LET r == Call(fault, "Company.create", CompanyCreate(d, name), d)
         IN  IF r.ok THEN Done(r.db, Reply("POST /companies", 201, <<"Company.create">>))
             ELSE Done(d, Reply("POST /companies", 500, <<"Company.create">>))

\* POST /companies/:companyId/warehouses
PostWarehouses(d, companyId, name, fault) ==
    IF FalsyString(name) THEN Done(d, Resp("POST /warehouses", 400))
    ELSE IF fault = "Company.findByPk"
         THEN Done(d, Reply("POST /warehouses", 500, <<"Company.findByPk">>))
    ELSE IF ~findByPk(d.Company, companyId)
         THEN Done(d, Reply("POST /warehouses", 404, <<"Company.findByPk">>))
    ELSE LET r == Call(fault, "Warehouse.create",
                       WarehouseCreate(d, name, companyId), d)
             calls == <<"Company.findByPk", "Warehouse.create">>
         IN  IF r.ok THEN Done(r.db, Reply("POST /warehouses", 201, calls))
             ELSE Done(d, Reply("POST /warehouses", 500, calls))

\* POST /companies/:companyId/suppliers
PostSuppliers(d, companyId, name, fault) ==
    IF FalsyString(name) THEN Done(d, Resp("POST /suppliers", 400))
    ELSE IF fault = "Company.findByPk"
         THEN Done(d, Reply("POST /suppliers", 500, <<"Company.findByPk">>))
    ELSE IF ~findByPk(d.Company, companyId)
         THEN Done(d, Reply("POST /suppliers", 404, <<"Company.findByPk">>))
    ELSE LET r == Call(fault, "Supplier.create",
                       SupplierCreate(d, name, companyId), d)
             calls == <<"Company.findByPk", "Supplier.create">>
         IN  IF r.ok THEN Done(r.db, Reply("POST /suppliers", 201, calls))
             ELSE Done(d, Reply("POST /suppliers", 500, calls))

\* Warehouse.findOne({ where: { id, companyId } }) finds a row.
WarehouseFindOneOfAnyCompany(d, id, companyId) ==
    id.k = "value" /\ id.v \in Ids(d.Warehouse)
WarehouseFindOne(d, id, companyId) ==
    /\ id.k = "value"
    /\ id.v \in Ids(d.Warehouse)
    /\ d.Warehouse[id.v].companyId = companyId

\* The store calls of product creation, in the order the handler issues them.
ProductCalls ==
    << "sequelize.transaction", "Company.findByPk", "Warehouse.findOne",
       "Product.create", "Inventory.create", "InventoryMovementLog.create",
       "t.commit" >>

\* The calls issued up to and including call.
CallsUpTo(call) ==
    SubSeq(ProductCalls, 1,
           CHOOSE n \in DOMAIN ProductCalls : ProductCalls[n] = call)

\* The catch block of product creation: t.rollback(), then 409 for a unique
\* constraint error and 500 for any other. call is the store call that threw.
ProductsCatch(d, t, error, call) ==
    Done(Rollback(d, t),
         [Reply("POST /products",
                IF error = "SequelizeUniqueConstraintError" THEN 409 ELSE 500,
                CallsUpTo(call) \o <<"t.rollback">>)
          EXCEPT !.failed = call])

\* POST /companies/:companyId/products. d is the committed store, t the store
\* as the transaction sees it.
PostProducts(d, companyId, body, fault, clock) ==
    IF ~checkRequiredFields(body, requiredFields)
    THEN Done(d, Resp("POST /products", 400))
    ELSE IF fault = "sequelize.transaction"
    \* line 67 is outside the try block: the rejection escapes the handler
    THEN Done(d, [Reply("POST /products", 0, CallsUpTo(fault))
                  EXCEPT !.failed = fault])
    ELSE IF fault = "Company.findByPk"
    THEN ProductsCatch(d, d, "SequelizeDatabaseError", fault)
    ELSE IF ~findByPk(d.Company, companyId)
    THEN Done(Rollback(d, d),
              Reply("POST /products", 404,
                    CallsUpTo("Company.findByPk") \o <<"t.rollback">>))
    ELSE IF fault = "Warehouse.findOne"
    THEN ProductsCatch(d, d, "SequelizeDatabaseError", fault)
    ELSE IF ~WarehouseFindOne(d, body.warehouseId, companyId)
    THEN Done(Rollback(d, d),
              Reply("POST /products", 404,
                    CallsUpTo("Warehouse.findOne") \o <<"t.rollback">>))
    ELSE
    LET p == Call(fault, "Product.create", ProductCreate(d, companyId, body), d)
        productId == Len(p.db.Product)
        i == Call(fault, "Inventory.create",
                  InventoryCreate(p.db, productId, body.warehouseId.v,
                                  body.initial_quantity), p.db)
        l == Call(fault, "InventoryMovementLog.create",
                  InventoryMovementLogCreate(i.db, Val(productId),
                      body.warehouseId, body.initial_quantity,
                      Val("stock_in"), clock), i.db)
    IN  IF ~p.ok THEN ProductsCatch(d, p.db, p.error, "Product.create")
        ELSE IF ~i.ok THEN ProductsCatch(d, i.db, i.error, "Inventory.create")
        ELSE IF ~l.ok
             THEN ProductsCatch(d, l.db, l.error, "InventoryMovementLog.create")
        ELSE IF fault = "t.commit"
             \* the commit throws and ends the transaction; the rollback of
             \* the catch block then throws in turn and no response is sent
             THEN Done(Rollback(d, l.db),
                       [Reply("POST /products", 0,
                              CallsUpTo(fault) \o <<"t.rollback">>)
                        EXCEPT !.failed = fault])
        ELSE Done(Commit(d, l.db),
                  Reply("POST /products", 201, CallsUpTo("t.commit")))

\* POST /inventory/log
PostInventoryLog(d, body, fault, clock) ==
    IF \/ FalsyNumber(body.productId) \/ FalsyNumber(body.warehouseId)
       \/ FalsyNumber(body.quantity_change) \/ FalsyString(body.reason)
    THEN Done(d, Resp("POST /inventory/log", 400))
    ELSE LET r == Call(fault, "InventoryMovementLog.create",
                       InventoryMovementLogCreate(d, body.productId,
                           body.warehouseId, body.quantity_change,
                           body.reason, clock), d)
             calls == <<"InventoryMovementLog.create">>
         IN  IF r.ok THEN Done(r.db, Reply("POST /inventory/log", 201, calls))
             ELSE Done(d, Reply("POST /inventory/log", 500, calls))

(* ---------------------- low-stock alert computation ------------------- *)
\* Inventory.findAll({ include: [Product where companyId and
\* quantity <= Product.low_stock_threshold, Warehouse] }): the Inventory rows
\* inner-joined to their Product, in row order.
LowStockRowStrict(d, companyId, item) ==
    /\ item.productId \in Ids(d.Product)
    /\ d.Product[item.productId].companyId = companyId
    /\ item.quantity < d.Product[item.productId].low_stock_threshold
LowStockRow(d, companyId, item) ==
    /\ item.productId \in Ids(d.Product)
    /\ d.Product[item.productId].companyId = companyId
    /\ item.quantity <= d.Product[item.productId].low_stock_threshold

lowStockItems(d, companyId) ==
    SelectSeq(d.Inventory, LAMBDA item : LowStockRow(d, companyId, item))

\* new Date(new Date().setDate(new Date().getDate() - 60))
sixtyDaysAgo(clock) == clock - WindowDays * HoursPerDay

\* The WHERE clause of the movement-log aggregation.
SaleRow(e, items, clock) ==
    /\ \E i \in DOMAIN items :
          /\ e.productId = items[i].productId
          /\ e.warehouseId = items[i].warehouseId
    /\ e.reason = "sale"
    /\ e.createdAt >= sixtyDaysAgo(clock)

RECURSIVE SumChange(_)
SumChange(rows) ==
    IF rows = <<>> THEN 0 ELSE Head(rows).quantity_change + SumChange(Tail(rows))

RECURSIVE MinCreatedAt(_)
MinCreatedAt(rows) ==
    IF Len(rows) = 1 THEN Head(rows).createdAt
    ELSE LET m == MinCreatedAt(Tail(rows))
         IN  IF Head(rows).createdAt <= m THEN Head(rows).createdAt ELSE m

\* InventoryMovementLog.findAll({ SUM(quantity_change), MIN(createdAt), where,
\* group: [productId, warehouseId] }): one row per group that has a row.
salesData(d, items, clock) ==
    LET rows == SelectSeq(d.InventoryMovementLog,
                          LAMBDA e : SaleRow(e, items, clock))
        groups == { <<rows[i].productId, rows[i].warehouseId>> : i \in DOMAIN rows }
        Of(g) == SelectSeq(rows, LAMBDA e : e.productId = g[1] /\ e.warehouseId = g[2])
    IN  { [ productId |-> g[1], warehouseId |-> g[2],
            totalSales |-> SumChange(Of(g)),
            firstSaleDate |-> MinCreatedAt(Of(g)) ] : g \in groups }

\* salesMap.get(`${productId}-${warehouseId}`): the rows under that key.
salesMapGet(sales, item) ==
    { r \in sales : r.productId = item.productId /\ r.warehouseId = item.warehouseId }

\* sale ? Math.abs(sale.totalSales) : 0
totalSalesInPeriod(sales, item) ==
    IF salesMapGet(sales, item) = {} THEN 0
    ELSE Abs((CHOOSE r \in salesMapGet(sales, item) : TRUE).totalSales)

\* Math.max(1, Math.ceil(timeDiff / (1000 * 3600 * 24)))
daysOnSaleWithoutFloor(today, firstSaleDate) ==
    (today - firstSaleDate + HoursPerDay - 1) \div HoursPerDay
daysOnSale(today, firstSaleDate) ==
    LET timeDiff == today - firstSaleDate
    IN  Max(1, (timeDiff + HoursPerDay - 1) \div HoursPerDay)

(* IEEE-754 double arithmetic of                                            *)
(*     avgDailySales = totalSalesInPeriod / daysOnSale                      *)
(*     Math.floor(quantity / avgDailySales)                                 *)
(* for integers total > 0 and days > 0. Both divisions round to nearest. The *)
(* rounded result differs from the exact floor(quantity * days / total)     *)
(* only when total divides quantity * days, the exact quotient n is not 0,  *)
(* and the first division was rounded away from the side that keeps         *)
(* quantity / avgDailySales at or beyond n.                                 *)
DoubleFractionBits == 52

\* e with 2^e <= total / days < 2^(e+1)
RECURSIVE BinExpUp(_, _, _)
BinExpUp(total, days, e) ==
    IF days * Pow2(e + 1) <= total THEN BinExpUp(total, days, e + 1) ELSE e

RECURSIVE BinExpDown(_, _, _)
BinExpDown(total, days, s) ==
    IF total * Pow2(s) < days THEN BinExpDown(total, days, s + 1) ELSE s

BinExp(total, days) ==
    IF total >= days THEN BinExpUp(total, days, 0) ELSE 0 - BinExpDown(total, days, 1)

RECURSIVE Pow2Mod(_, _)
Pow2Mod(n, m) == IF n <= 0 THEN 1 % m ELSE (2 * Pow2Mod(n - 1, m)) % m

\* k with 2^k <= m < 2^(k+1)
RECURSIVE Log2Floor(_)
Log2Floor(m) == IF m < 2 THEN 0 ELSE 1 + Log2Floor(m \div 2)

\* a * 2^s > b (strict) or a * 2^s >= b, for integers a, b and any integer s.
ScaledGreater(a, s, b, strict) ==
    LET l == IF s >= 0 THEN a * Pow2(s) ELSE a
        r == IF s >= 0 THEN b ELSE b * Pow2(0 - s)
    IN  IF strict THEN l > r ELSE l >= r

\* Math.floor(quantity / (total / days)) in doubles.
FloorOfDoubleQuotient(quantity, total, days) ==
    LET exact == (quantity * days) \div total
        e == BinExp(total, days)
        \* what the 53-bit significand of total / days leaves out, in units of
        \* 1/days of its last place
        rem == ((total % days) * Pow2Mod(DoubleFractionBits - e, days)) % days
        roundedUp == 2 * rem > days
        m == Abs(exact)
        k == Log2Floor(m)
    IN  IF (quantity * days) % total # 0 \/ exact = 0 \/ rem = 0 THEN exact
        ELSE IF exact > 0
             THEN IF roundedUp /\ ScaledGreater((days - rem) * m,
                                    e + 1 + (IF m = Pow2(k) THEN 1 ELSE 0),
                                    total * Pow2(k), TRUE)
                  THEN exact - 1 ELSE exact
        ELSE IF ~roundedUp /\ ScaledGreater(rem * m, e + 1, total * Pow2(k), FALSE)
             THEN exact - 1 ELSE exact

\* avgDailySales > 0 ? Math.floor(item.quantity / avgDailySales) : null
daysUntilStockout(quantity, total, days) ==
    IF total > 0 THEN Val(FloorOfDoubleQuotient(quantity, total, days)) ELSE NULL

\* The record pushed for one low-stock item (with the handler's locals
\* totalSalesInPeriod and daysOnSale beside the fields of the body).
AlertRecord(d, item, sales, today) ==
    LET sale == CHOOSE r \in salesMapGet(sales, item) : TRUE
        total == totalSalesInPeriod(sales, item)
        days == daysOnSale(today, sale.firstSaleDate)
        product == d.Product[item.productId]
    IN  [ productId |-> item.productId,
          sku |-> product.sku,
          warehouseId |-> item.warehouseId,
          current_stock |-> item.quantity,
          threshold |-> product.low_stock_threshold,
          days_until_stockout |-> daysUntilStockout(item.quantity, total, days),
          supplier |-> product.primarySupplierId,
          totalSalesInPeriod |-> total,
          daysOnSale |-> days ]

\* The loop over lowStockItems: a record for each item with sales.
RECURSIVE Alerts(_, _, _, _)
Alerts(d, items, sales, today) ==
    IF items = <<>> THEN <<>>
    ELSE IF totalSalesInPeriod(sales, Head(items)) > 0
         THEN <<AlertRecord(d, Head(items), sales, today)>>
              \o Alerts(d, Tail(items), sales, today)
    ELSE Alerts(d, Tail(items), sales, today)

\* The movement-log queries issued for the low-stock items: the one grouped
\* InventoryMovementLog.findAll whose where clause lists every item.
salesQueriesPerItem(items) ==
    [i \in DOMAIN items |-> "InventoryMovementLog.findAll"]
salesQueries(items) == <<"InventoryMovementLog.findAll">>

\* GET /companies/:companyId/alerts/low-stock
GetLowStockAlerts(d, companyId, fault, clock) ==
    IF fault = "Company.findByPk"
    THEN Done(d, Reply("GET /alerts/low-stock", 500, <<"Company.findByPk">>))
    ELSE IF ~findByPk(d.Company, companyId)
    THEN Done(d, Reply("GET /alerts/low-stock", 404, <<"Company.findByPk">>))
    ELSE IF fault = "Inventory.findAll"
    THEN Done(d, Reply("GET /alerts/low-stock", 500,
                       <<"Company.findByPk", "Inventory.findAll">>))
    ELSE
    LET items == lowStockItems(d, companyId)
        sales == salesData(d, items, clock)
        alerts == Alerts(d, items, sales, clock)
        selection == <<"Company.findByPk", "Inventory.findAll">>
    IN  IF Len(items) = 0
        THEN Done(d, [Reply("GET /alerts/low-stock", 200, selection) EXCEPT
                          !.companyId = companyId])
        ELSE IF fault = "InventoryMovementLog.findAll"
        THEN Done(d, Reply("GET /alerts/low-stock", 500,
                           selection \o salesQueries(items)))
        ELSE Done(d, [ op |-> "GET /alerts/low-stock", status |-> 200,
                       failed |-> "none", companyId |-> companyId,
                       calls |-> selection \o salesQueries(items),
                       lowStockItems |-> items, salesData |-> sales,
                       alerts |-> alerts, total_alerts |-> Len(alerts) ])

(* ------------------------------- inputs ------------------------------- *)
CompanyIds == 1 .. MaxCompanies
WarehouseIds == 1 .. MaxWarehouses
SupplierIds == 1 .. MaxSuppliers
ProductIds == 1 .. MaxProducts

Names == {ABSENT, Val("n")}
Skus == {Val("S1"), Val("S2")}

\* Well-formed request bodies of POST /companies/:companyId/products.
ProductBodies(warehouses, quantities, suppliers, thresholds) ==
    [ name : {Val("n")},
      sku : Skus,
      price : {Val(1)},
      warehouseId : warehouses,
      initial_quantity : quantities,
      primarySupplierId : suppliers,
      low_stock_threshold : thresholds ]

\* Bodies with a required field missing or null.
MalformedProductBodies ==
    LET b == [ name |-> Val("n"), sku |-> Val("S1"), price |-> Val(1),
               warehouseId |-> Val(1), initial_quantity |-> Val(1),
               primarySupplierId |-> ABSENT, low_stock_threshold |-> ABSENT ]
    IN  { [b EXCEPT !.name = ABSENT], [b EXCEPT !.name = NULL],
          [b EXCEPT !.initial_quantity = NULL] }

\* Request bodies of POST /inventory/log.
LogBodies(products, warehouses, changes, reasons) ==
    [ productId : products,
      warehouseId : warehouses,
      quantity_change : changes,
      reason : reasons ]

\* The store call of product creation that is made to throw.
ProductFaults ==
    { "none", "sequelize.transaction", "Product.create", "Inventory.create",
      "InventoryMovementLog.create", "t.commit" }

\* Inputs of the multi-tenant specification.
ApiProductBodies ==
    ProductBodies({Val(w) : w \in WarehouseIds},
                  {Val(DefaultThreshold), Val(DefaultThreshold + 1)},
                  {ABSENT}, {ABSENT})
ApiLogBodies ==
    LogBodies({Val(p) : p \in ProductIds}, {Val(w) : w \in WarehouseIds},
              {Val(-1)}, {Val("sale")})

\* Inputs of the single-tenant specification of the alert arithmetic.
CalcProductBodies ==
    [ name : {Val("n")}, sku : {Val("S1")}, price : {Val(1)},
      warehouseId : {Val(1)},
      initial_quantity : {Val(-1), Val(5), Val(11), Val(20)},
      primarySupplierId : {ABSENT},
      low_stock_threshold : {ABSENT, Val(20)} ]
CalcLogBodies ==
    LogBodies({Val(1)}, {Val(1)}, {Val(-30), Val(-12), Val(-8), Val(8)},
              {Val("sale"), Val("transfer")})
\* The instants at which requests arrive, in hours: days 0, 10, 15, 20, 29
\* and 60, and one hour after day 60.
CalcInstants ==
    {0, 10 * HoursPerDay, 15 * HoursPerDay, 20 * HoursPerDay, 29 * HoursPerDay,
     WindowDays * HoursPerDay, WindowDays * HoursPerDay + 1}

(* ------------------------------- actions ------------------------------ *)
WithinBounds(d) ==
    /\ Len(d.Company) <= MaxCompanies
    /\ Len(d.Warehouse) <= MaxWarehouses
    /\ Len(d.Supplier) <= MaxSuppliers
    /\ Len(d.Product) <= MaxProducts
    /\ Len(d.InventoryMovementLog) <= MaxLog

\* A request handled: the store and the response it leaves.
Handled(h) ==
    /\ WithinBounds(h.db)
    /\ db' = h.db
    /\ last' = h.last
    /\ UNCHANGED now

CreateCompany ==
    \E name \in Names, fault \in {"none", "Company.create"} :
        Handled(PostCompanies(db, name, fault))

CreateWarehouse ==
    \E c \in CompanyIds, name \in Names, fault \in {"none", "Warehouse.create"} :
        Handled(PostWarehouses(db, c, name, fault))

CreateSupplier ==
    \E c \in CompanyIds, name \in Names, fault \in {"none", "Supplier.create"} :
        Handled(PostSuppliers(db, c, name, fault))

CreateProduct(bodies) ==
    \/ \E c \in CompanyIds, body \in bodies, fault \in ProductFaults :
          Handled(PostProducts(db, c, body, fault, now))
    \/ \E c \in CompanyIds, body \in MalformedProductBodies :
          Handled(PostProducts(db, c, body, "none", now))

LogMovement(bodies) ==
    \E body \in bodies, fault \in {"none", "InventoryMovementLog.create"} :
        Handled(PostInventoryLog(db, body, fault, now))

LowStockAlerts ==
    \E c \in CompanyIds, fault \in {"none", "InventoryMovementLog.findAll"} :
        Handled(GetLowStockAlerts(db, c, fault, now))

\* Time passes between two requests; the earlier response is history.
AdvanceTo(instants) ==
    \E t \in instants :
        /\ t > now
        /\ now' = t
        /\ last' = Resp("none", 0)
        /\ UNCHANGED db

Init ==
    /\ db = EmptyDb
    /\ now = 0
    /\ last = Resp("none", 0)

Next ==
    \/ CreateCompany
    \/ CreateWarehouse
    \/ CreateSupplier
    \/ CreateProduct(ApiProductBodies)
    \/ LogMovement(ApiLogBodies)
    \/ LowStockAlerts

Spec == Init /\ [][Next]_vars

\* One company with one warehouse and one product, as the three requests
\* that create them leave the store; then movements, alert computations and
\* the passing of time.
CalcSeed ==
    PostWarehouses(PostCompanies(EmptyDb, Val("n"), "none").db,
                   1, Val("n"), "none").db

CalcInit ==
    \E body \in CalcProductBodies :
        LET h == PostProducts(CalcSeed, 1, body, "none", 0)
        IN  /\ db = h.db
            /\ now = 0
            /\ last = h.last

CalcNext ==
    \/ LogMovement(CalcLogBodies)
    \/ LowStockAlerts
    \/ AdvanceTo(CalcInstants)

SpecCalc == CalcInit /\ [][CalcNext]_vars

\* Inputs of the specification of supplier references: products that name no
\* supplier or supplier 1.
SupplierProductBodies ==
    ProductBodies({Val(w) : w \in WarehouseIds}, {Val(DefaultThreshold)},
                  {ABSENT, Val(1)}, {ABSENT})

\* Two companies with a warehouse each and a supplier of company 1, as the
\* five requests that create them leave the store.
SupplierSeed ==
    LET c1 == PostCompanies(EmptyDb, Val("n"), "none").db
        c2 == PostCompanies(c1, Val("n"), "none").db
        w1 == PostWarehouses(c2, 1, Val("n"), "none").db
        w2 == PostWarehouses(w1, 2, Val("n"), "none").db
    IN  PostSuppliers(w2, 1, Val("n"), "none")

SupplierInit ==
    /\ db = SupplierSeed.db
    /\ now = 0
    /\ last = SupplierSeed.last

SupplierNext ==
    \/ CreateProduct(SupplierProductBodies)
    \/ LogMovement(ApiLogBodies)
    \/ LowStockAlerts

SpecSupplier == SupplierInit /\ [][SupplierNext]_vars

(* ============================== claims ================================ *)
HasInventory(p) == \E i \in Ids(db.Inventory) : db.Inventory[i].productId = p

HasStockIn(p) ==
    \E i \in Ids(db.InventoryMovementLog) :
        /\ db.InventoryMovementLog[i].productId = p
        /\ db.InventoryMovementLog[i].reason = "stock_in"

\* C1: product creation is all-or-nothing. Whatever the outcome of the
\* requests so far (a fault at the Product, Inventory or movement-log insert
\* or at the commit included), a product id has its Product row, its
\* Inventory row and its 'stock_in' movement-log entry, or none of the three.
C1_AllOrNothing ==
    \A p \in ProductIds :
        /\ (p \in Ids(db.Product)) <=> HasInventory(p)
        /\ (p \in Ids(db.Product)) <=> HasStockIn(p)

\* C1 witness: a creation failed at the Inventory insert, after its Product
\* insert had succeeded, in a store that already holds a product.
C1_Witness ==
    /\ last.op = "POST /products"
    /\ last.status = 500
    /\ last.failed = "Inventory.create"
    /\ Len(db.Product) = 1

SkuUsed(d, companyId, sku) ==
    \E i \in Ids(d.Product) :
        d.Product[i].companyId = companyId /\ d.Product[i].sku = sku

\* C2: (a) no two persisted products share (company, SKU); (b) a creation
\* whose SKU a product of the same company already uses persists nothing,
\* whatever else the request carries and whichever store call fails, and ends
\* with 409 when the request is otherwise acceptable (the company exists, the
\* warehouse is its own, no store call fails); (c) an acceptable creation
\* whose SKU is used only by other companies' products succeeds.
C2_SkuUniquePerCompany ==
    /\ \A i, j \in Ids(db.Product) :
          (/\ db.Product[i].companyId = db.Product[j].companyId
           /\ db.Product[i].sku = db.Product[j].sku) => i = j
    /\ \A c \in CompanyIds, body \in ApiProductBodies \cup MalformedProductBodies :
          SkuUsed(db, c, body.sku.v) =>
              \A fault \in ProductFaults :
                  /\ PostProducts(db, c, body, fault, now).db = db
                  /\ PostProducts(db, c, body, fault, now).last.status # 201
    /\ \A c \in CompanyIds, body \in ApiProductBodies :
          (c \in Ids(db.Company) /\ WarehouseFindOne(db, body.warehouseId, c)) =>
              PostProducts(db, c, body, "none", now).last.status =
                  IF SkuUsed(db, c, body.sku.v) THEN 409 ELSE 201

\* C2 witness: two companies hold a product with the same SKU, and a further
\* creation under that SKU has just been refused with 409.
C2_Witness ==
    /\ last.op = "POST /products"
    /\ last.status = 409
    /\ \E i, j \in Ids(db.Product) :
          /\ db.Product[i].sku = db.Product[j].sku
          /\ db.Product[i].companyId # db.Product[j].companyId

AlertsReturned == last.op = "GET /alerts/low-stock" /\ last.status = 200

Rows(seq) == { seq[i] : i \in DOMAIN seq }

\* C3: the at-risk selection of an alert computation is exactly the Inventory
\* records whose product belongs to the company and whose quantity is at most
\* the product's low_stock_threshold: a record at its threshold is selected,
\* a record one above it is not.
C3_SelectionInclusive ==
    AlertsReturned =>
        /\ \A i \in Ids(db.Inventory) :
              db.Inventory[i] \in Rows(last.lowStockItems) <=>
                  /\ db.Product[db.Inventory[i].productId].companyId = last.companyId
                  /\ ~(db.Inventory[i].quantity >
                          db.Product[db.Inventory[i].productId].low_stock_threshold)
        /\ Rows(last.lowStockItems) \subseteq Rows(db.Inventory)
        /\ \A i \in Ids(db.Inventory) :
              LET q == db.Inventory[i].quantity
                  t == db.Product[db.Inventory[i].productId].low_stock_threshold
                  mine == db.Product[db.Inventory[i].productId].companyId
                              = last.companyId
              IN  /\ (mine /\ q = t) => db.Inventory[i] \in Rows(last.lowStockItems)
                  /\ q = t + 1 => db.Inventory[i] \notin Rows(last.lowStockItems)

\* C3 witness: an alert computation selected a record whose quantity equals
\* its product's threshold, and left out a record of the same company one
\* above its threshold.
C3_Witness ==
    /\ AlertsReturned
    /\ \E i \in DOMAIN last.lowStockItems :
          last.lowStockItems[i].quantity =
              db.Product[last.lowStockItems[i].productId].low_stock_threshold
    /\ \E i \in Ids(db.Inventory) :
          /\ db.Product[db.Inventory[i].productId].companyId = last.companyId
          /\ db.Inventory[i].quantity =
                 db.Product[db.Inventory[i].productId].low_stock_threshold + 1

\* The movement-log entries that count as sales of a pair at an instant:
\* reason 'sale', created within the last 60 days, exactly that pair.
SaleEntries(productId, warehouseId, clock) ==
    { i \in Ids(db.InventoryMovementLog) :
        /\ db.InventoryMovementLog[i].productId = productId
        /\ db.InventoryMovementLog[i].warehouseId = warehouseId
        /\ db.InventoryMovementLog[i].reason = "sale"
        /\ clock - db.InventoryMovementLog[i].createdAt <= WindowDays * HoursPerDay }

\* Total units sold: the sum of the absolute values of quantity_change.
RECURSIVE UnitsSold(_)
UnitsSold(entries) ==
    IF entries = {} THEN 0
    ELSE LET i == CHOOSE x \in entries : TRUE
         IN  Abs(db.InventoryMovementLog[i].quantity_change)
                 + UnitsSold(entries \ {i})

AlertsFor(item) ==
    { a \in DOMAIN last.alerts :
        /\ last.alerts[a].productId = item.productId
        /\ last.alerts[a].warehouseId = item.warehouseId }

\* C4: the alert list holds exactly one record for every at-risk pair with a
\* non-zero sales signal (units sold in the window), none for an at-risk pair
\* with no sales signal and none for any other pair; total_alerts is the
\* number of records.
C4_AlertPerPairWithSales ==
    AlertsReturned =>
        /\ \A i \in DOMAIN last.lowStockItems :
              LET item == last.lowStockItems[i]
                  sold == UnitsSold(SaleEntries(item.productId, item.warehouseId, now))
              IN  Cardinality(AlertsFor(item)) = IF sold > 0 THEN 1 ELSE 0
        /\ \A a \in DOMAIN last.alerts :
              \E i \in DOMAIN last.lowStockItems : a \in AlertsFor(last.lowStockItems[i])
        /\ last.total_alerts = Len(last.alerts)

\* C5: for every at-risk pair the total used by the alert computation is the
\* sum of the absolute values of quantity_change over the pair's sale entries
\* of the window (0 only when there is none).
C5_TotalIsSumOfAbsoluteValues ==
    AlertsReturned =>
        \A i \in DOMAIN last.lowStockItems :
            LET item == last.lowStockItems[i]
                sold == UnitsSold(SaleEntries(item.productId, item.warehouseId, now))
            IN  /\ \A a \in AlertsFor(item) : last.alerts[a].totalSalesInPeriod = sold
                /\ AlertsFor(item) = {} => sold = 0

\* The creation time of the earliest sale entry of a pair in the window.
FirstSale(productId, warehouseId, clock) ==
    LET entries == SaleEntries(productId, warehouseId, clock)
        first == CHOOSE i \in entries :
                     \A j \in entries : db.InventoryMovementLog[i].createdAt
                                            <= db.InventoryMovementLog[j].createdAt
    IN  db.InventoryMovementLog[first].createdAt

\* n whole days cover a span of hours, and n - 1 do not (or n is the floor 1).
CoversInDays(n, hours) ==
    /\ n >= 1
    /\ n * HoursPerDay >= hours
    /\ n = 1 \/ (n - 1) * HoursPerDay < hours

\* C6: for every at-risk pair with a sale entry in the window, observedDays
\* is the time from the earliest such entry to now, rounded up to whole days
\* and at least 1 (1 for a sale made just now); the handler divides by that
\* number, so the divisor is never 0.
C6_ObservedDays ==
    AlertsReturned =>
        /\ \A i \in DOMAIN last.lowStockItems :
              LET item == last.lowStockItems[i]
              IN  SaleEntries(item.productId, item.warehouseId, now) # {} =>
                      \E r \in last.salesData :
                          /\ r.productId = item.productId
                          /\ r.warehouseId = item.warehouseId
                          /\ CoversInDays(daysOnSale(now, r.firstSaleDate),
                                 now - FirstSale(item.productId, item.warehouseId, now))
        /\ \A a \in DOMAIN last.alerts :
              /\ last.alerts[a].daysOnSale >= 1
              /\ CoversInDays(last.alerts[a].daysOnSale,
                     now - FirstSale(last.alerts[a].productId,
                                     last.alerts[a].warehouseId, now))

\* C6 witness: an alert for a pair whose only sale entry was made just now,
\* with observedDays 1.
C6_Witness ==
    /\ AlertsReturned
    /\ \E a \in DOMAIN last.alerts :
          /\ last.alerts[a].daysOnSale = 1
          /\ FirstSale(last.alerts[a].productId, last.alerts[a].warehouseId, now) = now
          /\ Cardinality(SaleEntries(last.alerts[a].productId,
                                     last.alerts[a].warehouseId, now)) = 1

\* C7: for every emitted alert, days_until_stockout is the floor of the real
\* quotient quantity / (totalUnitsSold / observedDays).
C7_DaysUntilStockout ==
    AlertsReturned =>
        \A a \in DOMAIN last.alerts :
            /\ last.alerts[a].days_until_stockout.k = "value"
            /\ last.alerts[a].days_until_stockout.v =
                   (last.alerts[a].current_stock * last.alerts[a].daysOnSale)
                       \div last.alerts[a].totalSalesInPeriod

\* The two worked examples of C7 come out as stated: 30 units sold since 10
\* days ago with quantity 20 give 6, and 20 units sold since 20 days ago with
\* quantity 5 give 5.
C7_Examples ==
    AlertsReturned =>
        \A a \in DOMAIN last.alerts :
            LET r == last.alerts[a]
            IN  /\ (r.totalSalesInPeriod = 30 /\ r.daysOnSale = 10 /\ r.current_stock = 20)
                      => r.days_until_stockout = Val(6)
                /\ (r.totalSalesInPeriod = 20 /\ r.daysOnSale = 20 /\ r.current_stock = 5)
                      => r.days_until_stockout = Val(5)

C7_ExamplesReached ==
    /\ AlertsReturned
    /\ \E a \in DOMAIN last.alerts :
          /\ last.alerts[a].totalSalesInPeriod = 20
          /\ last.alerts[a].daysOnSale = 20
          /\ last.alerts[a].current_stock = 5
          /\ Cardinality(SaleEntries(1, 1, now)) = 2

\* C8: days_until_stockout of every returned alert is null or a non-negative
\* integer, whatever accepted values the requests carried.
C8_NeverNegative ==
    AlertsReturned =>
        \A a \in DOMAIN last.alerts :
            \/ last.alerts[a].days_until_stockout.k = "null"
            \/ last.alerts[a].days_until_stockout.v >= 0

\* C9: an alert computation for a company returns no record (and selects no
\* Inventory row) whose product or warehouse belongs to another company.
C9_TenantIsolation ==
    AlertsReturned =>
        /\ \A a \in DOMAIN last.alerts :
              /\ db.Product[last.alerts[a].productId].companyId = last.companyId
              /\ db.Warehouse[last.alerts[a].warehouseId].companyId = last.companyId
        /\ \A i \in DOMAIN last.lowStockItems :
              /\ db.Product[last.lowStockItems[i].productId].companyId = last.companyId
              /\ db.Warehouse[last.lowStockItems[i].warehouseId].companyId
                     = last.companyId

\* C9 witness: an alert was returned for one company while another company
\* holds a product of its own, with sales, in its own warehouse.
C9_Witness ==
    /\ AlertsReturned
    /\ last.alerts # <<>>
    /\ \E i \in Ids(db.Inventory) :
          /\ db.Product[db.Inventory[i].productId].companyId # last.companyId
          /\ db.Inventory[i].quantity
                 <= db.Product[db.Inventory[i].productId].low_stock_threshold

\* C10: a request that names a company or warehouse that does not exist, or a
\* warehouse of another company, ends with 404 and changes no table: the
\* company of POST warehouses, suppliers, products and GET alerts/low-stock,
\* the warehouse of POST products and of POST /inventory/log.
NotFound(h) == h.last.status = 404 /\ h.db = db

C10_NotFound ==
    /\ \A c \in CompanyIds \ Ids(db.Company) :
          /\ NotFound(PostWarehouses(db, c, Val("n"), "none"))
          /\ NotFound(PostSuppliers(db, c, Val("n"), "none"))
          /\ NotFound(GetLowStockAlerts(db, c, "none", now))
          /\ \A body \in ApiProductBodies :
                NotFound(PostProducts(db, c, body, "none", now))
    /\ \A c \in Ids(db.Company), body \in ApiProductBodies :
          ~WarehouseFindOne(db, body.warehouseId, c) =>
              NotFound(PostProducts(db, c, body, "none", now))
    /\ \A body \in ApiLogBodies :
          (/\ body.productId.v \in Ids(db.Product)
           /\ body.warehouseId.v \notin Ids(db.Warehouse)) =>
              NotFound(PostInventoryLog(db, body, "none", now))

\* Bodies of POST /inventory/log with a required field missing or null.
MalformedLogBodies ==
    LET b == [ productId |-> Val(1), warehouseId |-> Val(1),
               quantity_change |-> Val(-1), reason |-> Val("sale") ]
    IN  { [b EXCEPT !.productId = ABSENT], [b EXCEPT !.warehouseId = NULL],
          [b EXCEPT !.quantity_change = NULL], [b EXCEPT !.reason = ABSENT] }

\* The request was refused with 400 before any store call.
Refused(h) == h.last.status = 400 /\ h.last.calls = <<>> /\ h.db = db

\* C11: a creation request with a required field missing or null (name of
\* POST companies, warehouses and suppliers; name, sku, price, warehouseId,
\* initial_quantity of POST products; productId, warehouseId,
\* quantity_change, reason of POST /inventory/log) ends with 400 and issues
\* no store call, the opening of a transaction included.
C11_ValidationError ==
    /\ \A name \in {ABSENT, NULL} :
          /\ Refused(PostCompanies(db, name, "none"))
          /\ \A c \in CompanyIds :
                /\ Refused(PostWarehouses(db, c, name, "none"))
                /\ Refused(PostSuppliers(db, c, name, "none"))
    /\ \A body \in MalformedLogBodies :
          Refused(PostInventoryLog(db, body, "none", now))
    /\ \A c \in CompanyIds, body \in MalformedProductBodies :
          Refused(PostProducts(db, c, body, "none", now))

\* The statuses of the error taxonomy and of success.
Statuses == {200, 201, 400, 404, 409, 500}

\* C12: whichever store call fails, the handler catches the exception and
\* the request ends with one response of the taxonomy; no exception escapes
\* the handler.
C12_ExceptionsCaught ==
    last.op # "none" => last.status \in Statuses

\* C13: every Inventory record's quantity is at least 0.
C13_QuantityNonNegative ==
    \A i \in Ids(db.Inventory) : db.Inventory[i].quantity >= 0

\* The sum of quantity_change over the movement-log entries of a pair.
RECURSIVE Moved(_)
Moved(entries) ==
    IF entries = {} THEN 0
    ELSE LET i == CHOOSE x \in entries : TRUE
         IN  db.InventoryMovementLog[i].quantity_change + Moved(entries \ {i})

MovementsOf(productId, warehouseId) ==
    { i \in Ids(db.InventoryMovementLog) :
        /\ db.InventoryMovementLog[i].productId = productId
        /\ db.InventoryMovementLog[i].warehouseId = warehouseId }

\* C14: every Inventory quantity is the sum of quantity_change over the
\* movement-log entries of its pair, and that is the current_stock an alert
\* reports.
C14_QuantityFollowsMovements ==
    /\ \A i \in Ids(db.Inventory) :
          db.Inventory[i].quantity =
              Moved(MovementsOf(db.Inventory[i].productId,
                                db.Inventory[i].warehouseId))
    /\ AlertsReturned =>
          \A a \in DOMAIN last.alerts :
              last.alerts[a].current_stock =
                  Moved(MovementsOf(last.alerts[a].productId,
                                    last.alerts[a].warehouseId))

\* The read queries of the store.
ReadQueries == {"Company.findByPk", "Inventory.findAll", "InventoryMovementLog.findAll"}

\* C15: after the lookup of the company, an alert computation issues the
\* selection query and, when the selection is not empty, one grouped
\* movement-log aggregation for all its pairs (none when it is empty): at
\* most two queries however many pairs are at risk; it writes nothing.
C15_AtMostTwoQueries ==
    /\ last.op = "GET /alerts/low-stock" =>
          /\ Len(last.calls) >= 1 /\ last.calls[1] = "Company.findByPk"
          /\ Len(Tail(last.calls)) <= 2
          /\ \A n \in DOMAIN last.calls : last.calls[n] \in ReadQueries
    /\ AlertsReturned =>
          Tail(last.calls) =
              IF last.lowStockItems = <<>> THEN <<"Inventory.findAll">>
              ELSE <<"Inventory.findAll", "InventoryMovementLog.findAll">>
    /\ \A c \in CompanyIds :
          GetLowStockAlerts(db, c, "none", now).db = db

\* C15 witness: an alert computation over two at-risk pairs that issued the
\* selection and one aggregation.
C15_Witness ==
    /\ AlertsReturned
    /\ Len(last.lowStockItems) = 2
    /\ Len(last.calls) = 3

\* C16: no persisted product names a primary supplier of another company, and
\* the supplier of an alert returned for a company is null or a supplier of
\* that company.
C16_SupplierOfSameCompany ==
    /\ \A p \in Ids(db.Product) :
          db.Product[p].primarySupplierId.k = "value" =>
              db.Supplier[db.Product[p].primarySupplierId.v].companyId
                  = db.Product[p].companyId
    /\ AlertsReturned =>
          \A a \in DOMAIN last.alerts :
              \/ last.alerts[a].supplier = NULL
              \/ db.Supplier[last.alerts[a].supplier.v].companyId = last.companyId

\* An alert returned for a company carries a supplier of another company.
C16_ForeignSupplierReturned ==
    /\ AlertsReturned
    /\ \E a \in DOMAIN last.alerts :
          /\ last.alerts[a].supplier # NULL
          /\ db.Supplier[last.alerts[a].supplier.v].companyId # last.companyId

====
